---- MODULE Spec2Model ----
(***************************************************************************)
(* Model of talk_to_db.modules.orchestrator.Orchestrator: construction,    *)
(* the sequential and the broadcast conversation, the exchanges they are   *)
(* built from, the audit file written by spy_on_agents and the validation  *)
(* callback.                                                               *)
(*                                                                         *)
(* A Python str is a sequence of pieces (TLA+ strings), so that "" is <<>>,*)
(* concatenation is \o and truthiness is "not empty".  A Python object     *)
(* that can sit in Orchestrator.messages is a record with a type tag.      *)
(* Participants are numbered 0..N-1 as in the source: agents[i] is the     *)
(* _function_map (a set of tool names) of self.agents[i], whose name is i. *)
(***************************************************************************)
EXTENDS Integers, Sequences, FiniteSets, TLC

\* ------------------------------------------------------------------ bounds
MaxAgents == 4

\* longest text, in tokens, handed to the estimator on its own
MaxTokens == 2500

\* most innovation files a session writes
MaxInnovations == 2

\* most threads a Turbo4 instance makes
MaxThreads == 2

\* most messages added to a Turbo4 instance
MaxMessages == 2

\* most runs a Turbo4 instance starts
MaxRuns == 2

\* the polls of one run are counted up to this number
MaxPolls == 2

\* longest list of participants that is also run with the rarer replies
MaxRareAgents == 2

\* ------------------------------------------------------- python values
ToolNames == {"run_sql"}

PyStr(s) ==
    [type |-> "str", text |-> s,
     has_content |-> FALSE, content |-> <<>>,
     has_function_call |-> FALSE, function_call |-> <<>>]

PyNone ==
    [type |-> "NoneType", text |-> <<>>,
     has_content |-> FALSE, content |-> <<>>,
     has_function_call |-> FALSE, function_call |-> <<>>]

\* {"content": c}
ContentDict(c) ==
    [type |-> "dict", text |-> <<>>,
     has_content |-> TRUE, content |-> c,
     has_function_call |-> FALSE, function_call |-> <<>>]

\* {"content": None, "function_call": {"name": t, ...}}
FunctionCallDict(t) ==
    [type |-> "dict", text |-> <<>>,
     has_content |-> FALSE, content |-> <<>>,
     has_function_call |-> TRUE, function_call |-> <<t>>]

\* the prompts a caller passes and the replies generate_reply can produce
Prompts == {<<"hello">>}

Replies ==
    {PyStr(<<"reply">>), PyNone, ContentDict(<<"ok">>), ContentDict(<<>>)}
    \cup {FunctionCallDict(t) : t \in ToolNames}

\* {"content": c, "function_call": {"name": t, ...}}
ContentAndFunctionCallDict(c, t) ==
    [type |-> "dict", text |-> <<>>,
     has_content |-> TRUE, content |-> c,
     has_function_call |-> TRUE, function_call |-> <<t>>]

\* replies seen less often: a request for a function that no participant
\* of the list has in its map, and a request that also carries text
RareReplies ==
    {FunctionCallDict("write_file"),
     ContentAndFunctionCallDict(<<"ok">>, "run_sql")}

\* the replies the runs of a list of n participants are checked with
RepliesOf(n) ==
    IF n <= MaxRareAgents THEN Replies \cup RareReplies ELSE Replies

\* str(message), as stored in Chat.message
Str(m) ==
    CASE m.type = "str" -> m.text
      [] m.type = "NoneType" -> <<"None">>
      [] OTHER ->
            <<"{">>
            \o (IF m.has_content
                THEN <<"'content': '">> \o m.content \o <<"'">>
                ELSE <<"'content': None">>)
            \o (IF m.has_function_call
                THEN <<", 'function_call': ">> \o m.function_call
                ELSE <<>>)
            \o <<"}">>

\* the outcomes of the calls the orchestrator does not implement itself
Outcomes == {"ok", "send_raises", "reply_raises"}

\* what validate_results_func() can return: a bool or a (bool, str) pair
ValidateReturns ==
    {[is_pair |-> p, ok |-> b] : p \in BOOLEAN, b \in BOOLEAN}

NoValue == [is_pair |-> FALSE, ok |-> FALSE]

\* bool(value): a non-empty tuple is true
Truthy(v) == IF v.is_pair THEN TRUE ELSE v.ok

VARIABLES
    pc,                     \* position in the constructor / conversation
    err,                    \* the exception that ended the call, or "none"
    agents,                 \* self.agents: i |-> _function_map of agent i
    validate_results_func,  \* "absent" (None) or "present"
    messages,               \* self.messages
    chats,                  \* self.chats
    sink,                   \* the file instruments.agent_chat_file
    idx,                    \* loop index of the running conversation
    prompt,                 \* argument of the running conversation
    protocol,               \* "none", "sequential" or "broadcast"
    was_successful,         \* value returned by validate_results_func()
    report,                 \* success / failure line printed by broadcast
    origin,                 \* history: who produced each transcript entry
    log,                    \* history: the calls made, in order
    cost_text,              \* the text handed to estimate_price_and_tokens
    estimated,              \* what estimate_price_and_tokens returned
    results_file,           \* the file run_sql_results.json
    innovation_files,       \* the files <i>_innovation_file.json, i = 0..
    innovation_index,       \* PostgresAgentInstruments.innovation_index
    db,                     \* PostgresAgentInstruments.db: "none", "connected"
    validation,             \* outcome of the last validate_* call
    map_function_tools,     \* Turbo4.map_function_tools: the names equipped
    current_thread_id,      \* Turbo4.current_thread_id, 0 for None
    thread_messages,        \* Turbo4.thread_messages
    local_messages,         \* Turbo4.local_messages
    assistant_id,           \* Turbo4.assistant_id, 0 for None
    model,                  \* Turbo4.model
    run_id,                 \* Turbo4.run_id, 0 before the first run
    remote_assistant,       \* the service: model of the named assistant
    remote_thread,          \* the service: messages of the current thread
    run_status,             \* the service: status of the current run
    required_action,        \* the service: the tool calls the run asks for
    turbo_pc,               \* "idle", or "polling" inside run_thread
    ended,                  \* the latest Turbo4 method and how it ended
    calls,                  \* history: remote and tool calls of that method
    polls                   \* history: polls of the current run, capped

\* the fields of the Orchestrator and the history of its run
orchVars == <<pc, err, agents, validate_results_func, messages, chats, sink,
              idx, prompt, protocol, was_successful, report, origin, log>>

\* the argument and the result of the cost estimator
estVars == <<cost_text, estimated>>

\* the session directory and the fields of PostgresAgentInstruments
instrVars ==
    <<results_file, innovation_files, innovation_index, db, validation>>

\* the fields of a Turbo4 instance
turboFields ==
    <<map_function_tools, current_thread_id, thread_messages, local_messages,
      assistant_id, model, run_id>>

\* what the assistants service holds
turboRemote ==
    <<remote_assistant, remote_thread, run_status, required_action>>

turboVars == <<turboFields, turboRemote, turbo_pc, ended, calls, polls>>

vars == <<orchVars, estVars, instrVars, turboVars>>

\* ------------------------------------------------------------- helpers
total_agents == Len(agents)

Agent(i) == agents[i + 1]

Last(s) == s[Len(s)]

Event(e, a, b) == [ev |-> e, a |-> a, b |-> b]

Count(e) == Cardinality({k \in 1..Len(log) : log[k].ev = e})

IsPrefix(s, t) == Len(s) <= Len(t) /\ SubSeq(t, 1, Len(s)) = s

last_message_is_dict == Last(messages).type = "dict"

\* variant: None counts as a string
last_message_is_string_or_none ==
    Last(messages).type \in {"str", "NoneType"}

\* variant: any non-None entry counts as a string
last_message_is_string_or_dict == Last(messages).type \in {"str", "dict"}

last_message_is_string == Last(messages).type = "str"

latest_message == Last(messages)

\* variant: the second test of a step is an elif of the first
last_message_is_func_call_elif ==
    /\ last_message_is_dict /\ latest_message.has_function_call
    /\ log[Len(log)].ev = "step"

\* variant: every dict counts as a function call
last_message_is_func_call_any_dict == last_message_is_dict

last_message_is_func_call ==
    last_message_is_dict /\ latest_message.has_function_call

\* variant: a dict with a function call does not count as content
last_message_is_content_only ==
    /\ last_message_is_dict /\ latest_message.has_content
    /\ latest_message.content # <<>>
    /\ ~latest_message.has_function_call

last_message_is_content ==
    last_message_is_dict /\ latest_message.has_content
    /\ latest_message.content # <<>>

\* variant: the map must hold the function the latest message asks for
has_functions_matching(i) ==
    /\ latest_message.has_function_call
    /\ latest_message.function_call[1] \in Agent(i)

\* variant: no participant counts as having functions
has_functions_never(i) == FALSE

\* variant: the function map is not consulted
has_functions_any(i) == TRUE

has_functions(i) == Agent(i) # {}

\* variant: sender and receiver are exchanged in the record
Chat_swapped(from, to, message) ==
    [from_name |-> to, to_name |-> from, message |-> Str(message)]

Chat(from, to, message) ==
    [from_name |-> from, to_name |-> to, message |-> Str(message)]

\* variant: the exchange is not recorded
send_message_skip(cs, from, to, message) == cs

\* send_message: the chat record appended once from_agent.send returned
send_message(cs, from, to, message) == Append(cs, Chat(from, to, message))

\* variant: the history keeps only the latest message
add_message_replace(ms, message) == <<message>>

\* add_message
add_message(ms, message) == Append(ms, message)

\* generate_reply runs a tool when the receiver was sent a function call
\* naming one of its own tools
ToolEvents(to, message) ==
    IF message.has_function_call /\ message.function_call[1] \in Agent(to)
    THEN <<Event("tool", to, to)>>
    ELSE <<>>


\* who produced a transcript entry: the seed, or the reply of `to` when
\* addressed by `from` in an exchange of the given kind
Produced(kind, from, to) == [kind |-> kind, from |-> from, to |-> to]

\* who produced the message an exchange sends: the participant whose reply
\* is the latest transcript entry, or -1 for the caller's prompt
Producer(message) ==
    IF message = latest_message THEN Last(origin).to ELSE -1

\* variant: sending strips the receiver of its tools
send_strips_tools(ags, from, to) == [ags EXCEPT ![to + 1] = {}]

\* from_agent.send(message, to_agent), as far as the orchestrator's list of
\* participants goes: names, order and function maps stay as they are
send(ags, from, to) == ags

\* -------------------------------------------------------------- exchanges
\* basic_chat(agent_a, agent_b, message); self_function_chat(agent, message)
\* has the same body with agent_a = agent_b = agent.  `next` / `nexterr` is
\* where the caller continues once the exchange returned.
basic_chat(kind, a, b, message, reply, outcome, next, nexterr) ==
    /\ agents' = send(agents, a, b)
    /\ log' = log \o <<Event(kind, a, b)>>
                  \o (IF outcome = "send_raises" THEN <<>>
                      ELSE <<Event("deliver", b, Producer(message))>>
                           \o ToolEvents(b, message))
                  \o (IF outcome = "ok" THEN <<Event("reply", b, a)>>
                      ELSE <<>>)
    /\ chats' = IF outcome = "send_raises" THEN chats
                ELSE send_message(chats, a, b, message)
    /\ messages' = IF outcome = "ok" THEN add_message(messages, reply)
                   ELSE messages
    /\ origin' = IF outcome = "ok"
                 THEN Append(origin, Produced(kind, a, b))
                 ELSE origin
    /\ pc' = IF outcome = "ok" THEN next ELSE "raised"
    /\ err' = IF outcome = "ok" THEN nexterr ELSE "external:" \o outcome

\* memory_chat sends twice: the second send can raise as well
MemoryOutcomes == Outcomes \cup {"resend_raises"}

\* variant: the reply is not sent back to the receiver
memory_chat_no_resend(a, b, message, reply, outcome, next) ==
    basic_chat("memory", a, b, message, reply,
               IF outcome = "resend_raises" THEN "ok" ELSE outcome,
               next, err)

\* memory_chat(agent_a, agent_b, message)
memory_chat(a, b, message, reply, outcome, next) ==
    /\ agents' = send(send(agents, a, b), b, b)
    /\ log' = log \o <<Event("memory", a, b)>>
                  \o (IF outcome = "send_raises" THEN <<>>
                      ELSE <<Event("deliver", b, Producer(message))>>
                           \o ToolEvents(b, message))
                  \o (IF outcome \in {"ok", "resend_raises"}
                      THEN <<Event("reply", b, a)>> ELSE <<>>)
                  \o (IF outcome = "ok"
                      THEN <<Event("deliver", b, b)>> ELSE <<>>)
    /\ chats' = CASE outcome = "send_raises" -> chats
                  [] outcome \in {"reply_raises", "resend_raises"} ->
                        send_message(chats, a, b, message)
                  [] OTHER ->
                        send_message(send_message(chats, a, b, message),
                                     b, b, reply)
    /\ messages' = IF outcome = "ok" THEN add_message(messages, reply)
                   ELSE messages
    /\ origin' = IF outcome = "ok"
                 THEN Append(origin, Produced("memory", a, b))
                 ELSE origin
    /\ pc' = IF outcome = "ok" THEN next ELSE "raised"
    /\ err' = IF outcome = "ok" THEN err ELSE "external:" \o outcome

\* variant: the reply is forwarded without the assert
function_chat_self_unchecked(a, message, reply, outcome) ==
    basic_chat("function_self", a, a, message, reply, outcome,
               "function_forward", err)

\* variant: only the first participant's reply is asserted
function_chat_self_first(a, message, reply, outcome) ==
    LET content == reply.type = "dict" /\ reply.has_content
                   /\ reply.content # <<>>
    IN basic_chat("function_self", a, a, message, reply, outcome,
                  IF content \/ a > 0 THEN "function_forward" ELSE "raised",
                  IF content \/ a > 0 THEN err ELSE "AssertionError")

\* the first half of function_chat(agent_a, agent_b, message): the
\* self-addressed basic_chat and the assert on its reply
function_chat_self(a, message, reply, outcome) ==
    LET content == reply.type = "dict" /\ reply.has_content
                   /\ reply.content # <<>>
    IN basic_chat("function_self", a, a, message, reply, outcome,
                  IF content THEN "function_forward" ELSE "raised",
                  IF content THEN err ELSE "AssertionError")

\* variant: the file is left as it is
spy_on_agents_skip(cs) == sink

\* variant: the chat list is appended to what the file holds
spy_on_agents_append(cs) == [written |-> TRUE, data |-> sink.data \o cs]

\* variant: only the latest chat record is written
spy_on_agents_latest(cs) ==
    [written |-> TRUE,
     data |-> IF cs = <<>> THEN cs ELSE <<cs[Len(cs)]>>]

\* variant: the file is written once and then kept
spy_on_agents_first(cs) ==
    IF sink.written THEN sink ELSE [written |-> TRUE, data |-> cs]

\* spy_on_agents(): the file is rewritten with the whole chat list
spy_on_agents(cs) == [written |-> TRUE, data |-> cs]

\* variant: the end is taken one pair early
IsLastPair_early(i) == i = total_agents - 3

\* if idx == self.total_agents - 2:
IsLastPair(i) == i = total_agents - 2

\* variant: the index advances by two
NextIndex_skip(i) == i + 2

\* enumerate(...): the index of the next iteration
NextIndex(i) == i + 1

\* variant: the last participant is left out (self.agents[1:-1])
BroadcastHasNext_short(i) == i < total_agents - 2

\* enumerate(self.agents[1:]) has an element number i
BroadcastHasNext(i) == i < total_agents - 1

\* variant: the broadcaster forwards the latest message
BroadcastMessage_latest(p, latest) == latest

\* the message memory_chat is given by broadcast_conversation
BroadcastMessage(p, latest) == PyStr(p)

\* ------------------------------------------------------------------ cost
\* get_messages_as_string: the loop over self.messages, entry k onwards
RECURSIVE messages_as_str(_, _, _)
messages_as_str(ms, k, acc) ==
    IF k > Len(ms) THEN acc
    ELSE LET message == ms[k]
             content_from_dict ==
                 IF message.has_content THEN message.content ELSE <<>>
             func_call_from_dict ==
                 IF message.has_function_call THEN message.function_call
                 ELSE <<>>
             content == IF content_from_dict # <<>> THEN content_from_dict
                        ELSE func_call_from_dict
         IN CASE message.type = "NoneType" -> messages_as_str(ms, k + 1, acc)
              [] message.type = "dict" ->
                    IF content = <<>>
                    THEN messages_as_str(ms, k + 1, acc)
                    ELSE messages_as_str(ms, k + 1, acc \o content)
              [] OTHER -> messages_as_str(ms, k + 1, acc \o message.text)

\* variant: the text is built from the chat records
get_messages_as_string_chats(ms) ==
    LET F[k \in 0..Len(chats)] ==
            IF k = 0 THEN <<>> ELSE F[k - 1] \o chats[k].message
    IN F[Len(chats)]

\* variant: every entry contributes str(entry)
get_messages_as_string_strs(ms) ==
    LET F[k \in 0..Len(ms)] ==
            IF k = 0 THEN <<>> ELSE F[k - 1] \o Str(ms[k])
    IN F[Len(ms)]

get_messages_as_string(ms) == messages_as_str(ms, 1, <<>>)

\* count_tokens: the encoder is taken to yield one token per piece
count_tokens(text) == Len(text)

\* COST_PER_1K_TOKENS = 0.06, in cents
COST_PER_1K_TOKENS == 6

\* the token counts t with 6t/1000 cents exactly half-way between two cents
\* for which round((t / 1000) * 0.06, 2) yields the upper cent: the double
\* nearest to the product lies above the half-way point for these and below
\* it for every other tie up to 10000 tokens
TiesRoundedUp == {2250, 3250, 4250, 5250, 6250, 8750}

\* variant: the cost is cut to whole cents
CostCents_floor(tokens) == (COST_PER_1K_TOKENS * tokens) \div 1000

\* variant: only the tokens past the last full thousand are charged
CostCents_mod(tokens) ==
    (COST_PER_1K_TOKENS * (tokens % 1000) + 500) \div 1000

\* round((tokens / 1000) * COST_PER_1K_TOKENS, 2), in cents
CostCents(tokens) ==
    LET x == COST_PER_1K_TOKENS * tokens
    IN IF x % 1000 = 500
       THEN (IF tokens \in TiesRoundedUp THEN x \div 1000 + 1
             ELSE x \div 1000)
       ELSE (x + 500) \div 1000

\* estimate_price_and_tokens(text): (estimated_cost, tokens)
estimate_price_and_tokens(text) ==
    LET tokens == count_tokens(text)
    IN [cost |-> CostCents(tokens), tokens |-> tokens]

NoEstimate == [cost |-> -1, tokens |-> -1]

\* ----------------------------------------------------------- instruments
FileStates == {"absent", "empty", "content"}

\* what a validate_* method did: returned (ok, message) or raised
NoValidation == [by |-> "none", raised |-> FALSE, ok |-> FALSE]

Returned(by, ok) == [by |-> by, raised |-> FALSE, ok |-> ok]

Raised(by) == [by |-> by, raised |-> TRUE, ok |-> FALSE]

\* ----------------------------------------------------------------- Init
\* a fresh Orchestrator
OrchInit ==
    /\ pc = "start"
    /\ err = "none"
    /\ agents = <<>>
    /\ validate_results_func = "absent"
    /\ messages = <<>>
    /\ chats = <<>>
    /\ sink = [written |-> FALSE, data |-> <<>>]
    /\ idx = 0
    /\ prompt = <<>>
    /\ protocol = "none"
    /\ was_successful = NoValue
    /\ report = "none"
    /\ origin = <<>>
    /\ log = <<>>

\* no estimate asked for yet
EstIdle ==
    /\ cost_text = <<>>
    /\ estimated = NoEstimate

\* a fresh PostgresAgentInstruments on an empty session directory
InstrIdle ==
    /\ results_file = "absent"
    /\ innovation_files = [i \in 1..MaxInnovations |-> "absent"]
    /\ innovation_index = 0
    /\ db = "none"
    /\ validation = NoValidation

\* how a Turbo4 method ended
Done(method, result) == [method |-> method, result |-> result]

\* Turbo4.__init__, no assistant of the name known to the service
TurboIdle ==
    /\ map_function_tools = {}
    /\ current_thread_id = 0
    /\ thread_messages = <<>>
    /\ local_messages = <<>>
    /\ assistant_id = 0
    /\ model = "gpt-4o-mini"
    /\ run_id = 0
    /\ remote_assistant = "absent"
    /\ remote_thread = <<>>
    /\ run_status = "none"
    /\ required_action = <<>>
    /\ turbo_pc = "idle"
    /\ ended = Done("__init__", "returned")
    /\ calls = <<>>
    /\ polls = 0

Init == OrchInit /\ EstIdle /\ InstrIdle /\ TurboIdle

\* ----------------------------------------------------------- constructor
\* variant: a single participant is accepted
TooFewAgents_one(n) == n < 1

\* if len(self.agents) < 2: raise Exception(...)
TooFewAgents(n) == n < 2

FunctionMaps == SUBSET ToolNames

AgentLists == UNION {[1..n -> FunctionMaps] : n \in 0..MaxAgents}

Construct(ags, vf) ==
    /\ pc = "start"
    /\ agents' = ags
    /\ validate_results_func' = vf
    /\ messages' = <<>>
    /\ chats' = <<>>
    /\ IF TooFewAgents(Len(ags))
       THEN pc' = "raised" /\ err' = "Exception:config"
       ELSE pc' = "constructed" /\ err' = err
    /\ UNCHANGED <<sink, idx, prompt, protocol, was_successful, report,
                   origin, log>>
    /\ UNCHANGED <<estVars, instrVars, turboVars>>

\* ------------------------------------------------- sequential_conversation
SequentialStart(p) ==
    /\ pc = "constructed"
    /\ protocol' = "sequential"
    /\ prompt' = p
    /\ messages' = add_message(messages, PyStr(p))
    /\ origin' = Append(origin, Produced("seed", -1, -1))
    /\ idx' = 0
    /\ pc' = "seq_loop"
    /\ UNCHANGED <<err, agents, validate_results_func, chats, sink,
                   was_successful, report, log>>
    /\ UNCHANGED <<estVars, instrVars, turboVars>>

\* for idx, agent in enumerate(self.agents): agent_a, agent_b = ...
SequentialLoop ==
    /\ pc = "seq_loop"
    /\ IF idx >= total_agents
       THEN pc' = "returned_none" /\ err' = err /\ log' = log
       ELSE IF idx + 1 >= total_agents
            THEN pc' = "raised" /\ err' = "IndexError" /\ log' = log
            ELSE /\ pc' = "seq_basic" /\ err' = err
                 /\ log' = Append(log, Event("step", idx, idx + 1))
    /\ UNCHANGED <<agents, validate_results_func, messages, chats, sink,
                   idx, prompt, protocol, was_successful, report, origin>>
    /\ UNCHANGED <<estVars, instrVars, turboVars>>

\* if self.last_message_is_string: self.basic_chat(agent_a, agent_b, ...)
SequentialBasic ==
    /\ pc = "seq_basic"
    /\ IF last_message_is_string
       THEN \E reply \in RepliesOf(total_agents), outcome \in Outcomes :
                basic_chat("basic", idx, idx + 1, latest_message, reply,
                           outcome, "seq_func", err)
       ELSE pc' = "seq_func" /\ UNCHANGED <<err, agents, messages, chats, origin,
                         log>>
    /\ UNCHANGED <<validate_results_func, sink, idx, prompt,
                   protocol, was_successful, report>>
    /\ UNCHANGED <<estVars, instrVars, turboVars>>

\* if self.last_message_is_func_call and self.has_functions(agent_a): ...
SequentialFunction ==
    /\ pc = "seq_func"
    /\ IF last_message_is_func_call /\ has_functions(idx)
       THEN \E reply \in RepliesOf(total_agents), outcome \in Outcomes :
                function_chat_self(idx, latest_message, reply, outcome)
       ELSE pc' = "seq_spy" /\ UNCHANGED <<err, agents, messages, chats, origin,
                         log>>
    /\ UNCHANGED <<validate_results_func, sink, idx, prompt,
                   protocol, was_successful, report>>
    /\ UNCHANGED <<estVars, instrVars, turboVars>>

\* the second half of function_chat: basic_chat(agent_a, agent_b, latest)
FunctionForward ==
    /\ pc = "function_forward"
    /\ \E reply \in RepliesOf(total_agents), outcome \in Outcomes :
          IF protocol = "sequential"
          THEN basic_chat("function_forward", idx, idx + 1, latest_message,
                          reply, outcome, "seq_spy", err)
          ELSE basic_chat("function_forward", idx + 1, idx + 1,
                          latest_message, reply, outcome, "bc_spy", err)
    /\ UNCHANGED <<validate_results_func, sink, idx, prompt,
                   protocol, was_successful, report>>
    /\ UNCHANGED <<estVars, instrVars, turboVars>>

\* self.spy_on_agents(); if idx == self.total_agents - 2: ...
SequentialSpy ==
    /\ pc = "seq_spy"
    /\ \E written \in BOOLEAN :
          IF written
          THEN /\ sink' = spy_on_agents(chats)
               /\ log' = Append(log, Event("persist", idx, idx))
               /\ err' = err
               /\ IF IsLastPair(idx)
                  THEN pc' = "seq_end" /\ idx' = idx
                  ELSE pc' = "seq_loop" /\ idx' = NextIndex(idx)
          ELSE /\ pc' = "raised" /\ err' = "external:persist_raises"
               /\ UNCHANGED <<sink, log, idx>>
    /\ UNCHANGED <<agents, validate_results_func, messages, chats, prompt,
                   protocol, was_successful, report, origin>>
    /\ UNCHANGED <<estVars, instrVars, turboVars>>

\* if self.has_functions(agent_b): self.self_function_chat(agent_b, ...)
SequentialEnd ==
    /\ pc = "seq_end"
    /\ IF has_functions(idx + 1)
       THEN \E reply \in RepliesOf(total_agents), outcome \in Outcomes :
                basic_chat("self_function", idx + 1, idx + 1, latest_message,
                           reply, outcome, "seq_validate", err)
       ELSE pc' = "seq_validate"
            /\ UNCHANGED <<err, agents, messages, chats, origin,
                         log>>
    /\ UNCHANGED <<validate_results_func, sink, idx, prompt,
                   protocol, was_successful, report>>
    /\ UNCHANGED <<estVars, instrVars, turboVars>>

\* variant: a missing predicate counts as one that returned
validate_lenient(next) ==
    /\ log' = Append(log, Event("validate", -1, -1))
    /\ \E v \in ValidateReturns :
          was_successful' = v /\ pc' = next /\ err' = err

\* was_successful = self.validate_results_func()
validate(next) ==
    IF validate_results_func = "absent"
    THEN /\ pc' = "raised" /\ err' = "TypeError:validate_absent"
         /\ UNCHANGED <<was_successful, log>>
    ELSE /\ log' = Append(log, Event("validate", -1, -1))
         /\ \/ \E v \in ValidateReturns :
                  was_successful' = v /\ pc' = next /\ err' = err
            \/ /\ pc' = "raised" /\ err' = "external:validate_raises"
               /\ UNCHANGED was_successful

SequentialValidate ==
    /\ pc = "seq_validate"
    /\ validate("seq_spy_after")
    /\ UNCHANGED <<agents, validate_results_func, messages, chats, sink,
                   idx, prompt, protocol, report, origin>>
    /\ UNCHANGED <<estVars, instrVars, turboVars>>

SequentialSpyAfter ==
    /\ pc = "seq_spy_after"
    /\ \E written \in BOOLEAN :
          IF written
          THEN /\ sink' = spy_on_agents(chats)
               /\ log' = Append(log, Event("persist", idx, idx))
               /\ pc' = "seq_return" /\ err' = err
          ELSE /\ pc' = "raised" /\ err' = "external:persist_raises"
               /\ UNCHANGED <<sink, log>>
    /\ UNCHANGED <<agents, validate_results_func, messages, chats, idx,
                   prompt, protocol, was_successful, report, origin>>
    /\ UNCHANGED <<estVars, instrVars, turboVars>>

\* return ConversationResult(success=..., messages=..., cost=...,
\* tokens=..., last_message_str=...): the dataclass has a sixth field,
\* error_message, with no default, so the constructor raises TypeError
SequentialReturn ==
    /\ pc = "seq_return"
    /\ pc' = "raised"
    /\ err' = "TypeError:error_message"
    /\ UNCHANGED <<agents, validate_results_func, messages, chats, sink,
                   idx, prompt, protocol, was_successful, report, origin,
                   log>>
    /\ cost_text' = get_messages_as_string(messages)
    /\ estimated' = estimate_price_and_tokens(cost_text')
    /\ UNCHANGED <<instrVars, turboVars>>

\* -------------------------------------------------- broadcast_conversation
BroadcastStart(p) ==
    /\ pc = "constructed"
    /\ protocol' = "broadcast"
    /\ prompt' = p
    /\ messages' = add_message(messages, PyStr(p))
    /\ origin' = Append(origin, Produced("seed", -1, -1))
    /\ idx' = 0
    /\ pc' = "bc_loop"
    /\ UNCHANGED <<err, agents, validate_results_func, chats, sink,
                   was_successful, report, log>>
    /\ UNCHANGED <<estVars, instrVars, turboVars>>

\* for idx, agent_iterate in enumerate(self.agents[1:]):
BroadcastLoop ==
    /\ pc = "bc_loop"
    /\ IF BroadcastHasNext(idx)
       THEN pc' = "bc_memory"
            /\ log' = Append(log, Event("step", 0, idx + 1))
       ELSE pc' = "bc_validate" /\ log' = log
    /\ UNCHANGED <<err, agents, validate_results_func, messages, chats,
                   sink, idx, prompt, protocol, was_successful, report,
                   origin>>
    /\ UNCHANGED <<estVars, instrVars, turboVars>>

\* if self.last_message_is_string: self.memory_chat(broadcast_agent, ...)
BroadcastMemory ==
    /\ pc = "bc_memory"
    /\ IF last_message_is_string
       THEN \E reply \in RepliesOf(total_agents), outcome \in MemoryOutcomes :
                memory_chat(0, idx + 1,
                            BroadcastMessage(prompt, latest_message),
                            reply, outcome, "bc_func")
       ELSE pc' = "bc_func" /\ UNCHANGED <<err, agents, messages, chats, origin,
                         log>>
    /\ UNCHANGED <<validate_results_func, sink, idx, prompt,
                   protocol, was_successful, report>>
    /\ UNCHANGED <<estVars, instrVars, turboVars>>

\* if self.last_message_is_func_call and self.has_functions(agent_iterate)
BroadcastFunction ==
    /\ pc = "bc_func"
    /\ IF last_message_is_func_call /\ has_functions(idx + 1)
       THEN \E reply \in RepliesOf(total_agents), outcome \in Outcomes :
                function_chat_self(idx + 1, latest_message, reply, outcome)
       ELSE pc' = "bc_spy" /\ UNCHANGED <<err, agents, messages, chats, origin,
                         log>>
    /\ UNCHANGED <<validate_results_func, sink, idx, prompt,
                   protocol, was_successful, report>>
    /\ UNCHANGED <<estVars, instrVars, turboVars>>

BroadcastSpy ==
    /\ pc = "bc_spy"
    /\ \E written \in BOOLEAN :
          IF written
          THEN /\ sink' = spy_on_agents(chats)
               /\ log' = Append(log, Event("persist", idx + 1, idx + 1))
               /\ pc' = "bc_loop" /\ idx' = NextIndex(idx) /\ err' = err
          ELSE /\ pc' = "raised" /\ err' = "external:persist_raises"
               /\ UNCHANGED <<sink, log, idx>>
    /\ UNCHANGED <<agents, validate_results_func, messages, chats, prompt,
                   protocol, was_successful, report, origin>>
    /\ UNCHANGED <<estVars, instrVars, turboVars>>

\* was_successful = self.validate_results_func(); if was_successful: print
BroadcastValidate ==
    /\ pc = "bc_validate"
    /\ validate("bc_return")
    /\ report' = IF pc' = "bc_return"
                 THEN (IF Truthy(was_successful') THEN "successful"
                       ELSE "failed")
                 ELSE report
    /\ UNCHANGED <<agents, validate_results_func, messages, chats, sink,
                   idx, prompt, protocol, origin>>
    /\ UNCHANGED <<estVars, instrVars, turboVars>>

\* cost, token = ...; return ConversationResult(..., tokens=tokens, ...):
\* the name tokens is not bound, so the return raises NameError
BroadcastReturn ==
    /\ pc = "bc_return"
    /\ pc' = "raised"
    /\ err' = "NameError:tokens"
    /\ UNCHANGED <<agents, validate_results_func, messages, chats, sink,
                   idx, prompt, protocol, was_successful, report, origin,
                   log>>
    /\ cost_text' = get_messages_as_string(messages)
    /\ estimated' = estimate_price_and_tokens(cost_text')
    /\ UNCHANGED <<instrVars, turboVars>>

Next ==
    \/ \E ags \in AgentLists, vf \in {"absent", "present"} :
          Construct(ags, vf)
    \/ \E p \in Prompts : SequentialStart(p)
    \/ SequentialLoop
    \/ SequentialBasic
    \/ SequentialFunction
    \/ FunctionForward
    \/ SequentialSpy
    \/ SequentialEnd
    \/ SequentialValidate
    \/ SequentialSpyAfter
    \/ SequentialReturn
    \/ \E p \in Prompts : BroadcastStart(p)
    \/ BroadcastLoop
    \/ BroadcastMemory
    \/ BroadcastFunction
    \/ BroadcastSpy
    \/ BroadcastValidate
    \/ BroadcastReturn

Spec == Init /\ [][Next]_vars


\* a run is fair as long as the calls it makes return: the interpreter
\* executes the next statement
FairSpec == Spec /\ WF_vars(Next)

\* ------------------------------------------------------------- estimator
\* a text of t tokens
Text(t) == [i \in 1..t |-> "tok"]

EstInit ==
    /\ OrchInit
    /\ InstrIdle
    /\ TurboIdle
    /\ cost_text \in {Text(t) : t \in 0..MaxTokens}
    /\ estimated = NoEstimate

\* llm.estimate_price_and_tokens(text), called on its own
Estimate ==
    /\ estimated' = estimate_price_and_tokens(cost_text)
    /\ UNCHANGED <<orchVars, cost_text, instrVars, turboVars>>

EstNext == Estimate

EstSpec == EstInit /\ [][EstNext]_vars

\* ------------------------------------------------ PostgresAgentInstruments
\* the session directory may hold files of an earlier session of this id
InstrInit ==
    /\ OrchInit
    /\ EstIdle
    /\ TurboIdle
    /\ results_file \in FileStates
    /\ innovation_files \in [1..MaxInnovations -> FileStates]
    /\ innovation_index = 0
    /\ db = "none"
    /\ validation = NoValidation

\* reset_files: every file of the session directory is removed
reset_files(f) == "absent"

ResetFiles ==
    /\ results_file' = reset_files(results_file)
    /\ innovation_files' =
          [i \in 1..MaxInnovations |-> reset_files(innovation_files[i])]
    /\ sink' = [written |-> FALSE, data |-> <<>>]
    /\ UNCHANGED <<pc, err, agents, validate_results_func, messages, chats,
                   idx, prompt, protocol, was_successful, report, origin,
                   log>>
    /\ UNCHANGED <<estVars, turboVars, innovation_index, db, validation>>

\* __enter__: reset_files(), then the database is connected
Enter ==
    /\ db = "none"
    /\ results_file' = reset_files(results_file)
    /\ innovation_files' =
          [i \in 1..MaxInnovations |-> reset_files(innovation_files[i])]
    /\ sink' = [written |-> FALSE, data |-> <<>>]
    /\ db' = "connected"
    /\ UNCHANGED <<pc, err, agents, validate_results_func, messages, chats,
                   idx, prompt, protocol, was_successful, report, origin,
                   log>>
    /\ UNCHANGED <<estVars, turboVars, innovation_index, validation>>

\* run_sql(sql): self.db.run_sql raises (no connection, or the query
\* failed) before the file is opened, or returns the JSON text of a list,
\* which is never empty
run_sql(query_ok) ==
    /\ results_file' = IF db = "connected" /\ query_ok THEN "content"
                       ELSE results_file
    /\ UNCHANGED <<orchVars, estVars, turboVars, innovation_files, innovation_index, db,
                   validation>>

\* validate_run_sql: open(fname, "r") raises FileNotFoundError when the
\* file is missing
validate_run_sql(f) ==
    CASE f = "absent" -> Raised("validate_run_sql")
      [] f = "empty" -> Returned("validate_run_sql", FALSE)
      [] OTHER -> Returned("validate_run_sql", TRUE)

ValidateRunSql ==
    /\ validation' = validate_run_sql(results_file)
    /\ UNCHANGED <<orchVars, estVars, turboVars, results_file, innovation_files,
                   innovation_index, db>>

\* what write_innovation_file is given: "", a longer string, or a value
\* that is not a string
Contents == {"empty", "content", "not_str"}

\* write_innovation_file(content): file.write_file truncates the file and
\* then f.write raises on a value that is not a string, before the index
\* is incremented
write_innovation_file(content) ==
    /\ innovation_index < MaxInnovations
    /\ innovation_files' =
          [innovation_files EXCEPT ![innovation_index + 1] =
               IF content = "content" THEN "content" ELSE "empty"]
    /\ innovation_index' = IF content = "not_str" THEN innovation_index
                           ELSE innovation_index + 1
    /\ UNCHANGED <<orchVars, estVars, turboVars, results_file, db, validation>>

\* variant: a file passes as soon as it exists
validate_innovation_files_exists(files, index) ==
    IF \E i \in 1..index : files[i] = "absent"
    THEN Raised("validate_innovation_files")
    ELSE Returned("validate_innovation_files", TRUE)

\* validate_innovation_files: the first file that is missing or empty
\* decides
validate_innovation_files(files, index) ==
    LET bad == {i \in 1..index : files[i] # "content"}
    IN IF bad = {} THEN Returned("validate_innovation_files", TRUE)
       ELSE LET first == CHOOSE i \in bad : \A j \in bad : i <= j
            IN IF files[first] = "absent"
               THEN Raised("validate_innovation_files")
               ELSE Returned("validate_innovation_files", FALSE)

ValidateInnovationFiles ==
    /\ validation' = validate_innovation_files(innovation_files,
                                               innovation_index)
    /\ UNCHANGED <<orchVars, estVars, turboVars, results_file, innovation_files,
                   innovation_index, db>>

InstrNext ==
    \/ ResetFiles
    \/ Enter
    \/ \E query_ok \in BOOLEAN : run_sql(query_ok)
    \/ ValidateRunSql
    \/ \E content \in Contents : write_innovation_file(content)
    \/ ValidateInnovationFiles

InstrSpec == InstrInit /\ [][InstrNext]_vars

\* ----------------------------------------------------------------- Turbo4
Models == {"gpt-4o-mini", "gpt-4o"}

\* the names of the TurboTools a caller has
TurboTools == {"run_sql"}

\* the tool calls a run may ask for
Requests == {<<"run_sql">>, <<"run_sql", "run_sql">>}

RemoteCall(op) == [op |-> op, arg |-> ""]

ToolCall(name) == [op |-> "tool", arg |-> name]

\* messages.list(...).data: the newest message first
Reverse(s) == [i \in 1..Len(s) |-> s[Len(s) + 1 - i]]

\* the service may already hold an assistant of the name
TurboInit ==
    /\ OrchInit /\ EstIdle /\ InstrIdle
    /\ map_function_tools = {}
    /\ current_thread_id = 0
    /\ thread_messages = <<>>
    /\ local_messages = <<>>
    /\ assistant_id = 0
    /\ model = "gpt-4o-mini"
    /\ run_id = 0
    /\ remote_assistant \in {"absent"} \cup Models
    /\ remote_thread = <<>>
    /\ run_status = "none"
    /\ required_action = <<>>
    /\ turbo_pc = "idle"
    /\ ended = Done("__init__", "returned")
    /\ calls = <<>>
    /\ polls = 0

\* get_or_create_assistant(name, m)
GetOrCreateAssistant(m) ==
    /\ turbo_pc = "idle"
    /\ assistant_id' = 1
    /\ model' = m
    /\ remote_assistant' = m
    /\ calls' = CASE remote_assistant = "absent" ->
                       <<RemoteCall("assistants.list"),
                         RemoteCall("assistants.create")>>
                  [] remote_assistant \notin {"absent", m} ->
                       <<RemoteCall("assistants.list"),
                         RemoteCall("assistants.update")>>
                  [] OTHER -> <<RemoteCall("assistants.list")>>
    /\ ended' = Done("get_or_create_assistant", "returned")
    /\ UNCHANGED <<map_function_tools, current_thread_id, thread_messages,
                   local_messages, run_id, remote_thread, run_status,
                   required_action, turbo_pc, polls>>
    /\ UNCHANGED <<orchVars, estVars, instrVars>>

\* variant: the assistant is not asked for
SetInstructions_unchecked ==
    /\ turbo_pc = "idle"
    /\ calls' = <<RemoteCall("assistants.update")>>
    /\ ended' = Done("set_instructions", "returned")
    /\ UNCHANGED <<turboFields, turboRemote, turbo_pc, polls>>
    /\ UNCHANGED <<orchVars, estVars, instrVars>>

\* set_instructions(instructions)
SetInstructions ==
    /\ turbo_pc = "idle"
    /\ IF assistant_id = 0
       THEN /\ ended' = Done("set_instructions", "ValueError")
            /\ calls' = <<>>
       ELSE /\ calls' = <<RemoteCall("assistants.update")>>
            /\ ended' = Done("set_instructions", "returned")
    /\ UNCHANGED <<turboFields, turboRemote, turbo_pc, polls>>
    /\ UNCHANGED <<orchVars, estVars, instrVars>>

\* equip_tools(turbo_tools, equip_on_assistant)
EquipTools(turbo_tools, equip_on_assistant) ==
    /\ turbo_pc = "idle"
    /\ IF assistant_id = 0
       THEN /\ ended' = Done("equip_tools", "ValueError")
            /\ calls' = <<>>
            /\ UNCHANGED map_function_tools
       ELSE /\ map_function_tools' = turbo_tools
            /\ calls' = IF equip_on_assistant
                        THEN <<RemoteCall("assistants.update")>>
                        ELSE <<>>
            /\ ended' = Done("equip_tools", "returned")
    /\ UNCHANGED <<current_thread_id, thread_messages, local_messages,
                   assistant_id, model, run_id, turboRemote, turbo_pc, polls>>
    /\ UNCHANGED <<orchVars, estVars, instrVars>>

\* make_thread(): local_messages is left as it is
MakeThread ==
    /\ turbo_pc = "idle"
    /\ current_thread_id < MaxThreads
    /\ IF assistant_id = 0
       THEN /\ ended' = Done("make_thread", "ValueError")
            /\ calls' = <<>>
            /\ UNCHANGED <<current_thread_id, thread_messages, remote_thread>>
       ELSE /\ calls' = <<RemoteCall("threads.create")>>
            /\ remote_thread' = <<>>
            /\ current_thread_id' = current_thread_id + 1
            /\ thread_messages' = <<>>
            /\ ended' = Done("make_thread", "returned")
    /\ UNCHANGED <<map_function_tools, local_messages, assistant_id, model,
                   run_id, remote_assistant, run_status, required_action,
                   turbo_pc, polls>>
    /\ UNCHANGED <<orchVars, estVars, instrVars>>

\* load_threads()
load_threads(thread) == Reverse(thread)

\* add_message(message, refresh_threads): the message is appended to
\* local_messages before the service is called, and the service refuses a
\* message for no thread
AddMessage(refresh_threads) ==
    /\ turbo_pc = "idle"
    /\ Len(local_messages) < MaxMessages
    /\ local_messages' = Append(local_messages, "question")
    /\ calls' = <<RemoteCall("messages.create")>>
               \o IF current_thread_id # 0 /\ refresh_threads
                  THEN <<RemoteCall("messages.list")>> ELSE <<>>
    /\ IF current_thread_id = 0
       THEN /\ ended' = Done("add_message", "external")
            /\ UNCHANGED <<remote_thread, thread_messages>>
       ELSE /\ remote_thread' = Append(remote_thread, "question")
            /\ thread_messages' = IF refresh_threads
                                  THEN load_threads(remote_thread')
                                  ELSE thread_messages
            /\ ended' = Done("add_message", "returned")
    /\ UNCHANGED <<map_function_tools, current_thread_id, assistant_id, model,
                   run_id, remote_assistant, run_status, required_action,
                   turbo_pc, polls>>
    /\ UNCHANGED <<orchVars, estVars, instrVars>>

\* enable_retrieval()
EnableRetrieval ==
    /\ turbo_pc = "idle"
    /\ IF assistant_id = 0
       THEN /\ ended' = Done("enable_retrieval", "ValueError")
            /\ calls' = <<>>
       ELSE /\ calls' = <<RemoteCall("assistants.update")>>
            /\ ended' = Done("enable_retrieval", "returned")
    /\ UNCHANGED <<turboFields, turboRemote, turbo_pc, polls>>
    /\ UNCHANGED <<orchVars, estVars, instrVars>>

\* run_thread(toolbox) up to the polling loop; an empty toolbox stands for
\* None as well
run_thread(toolbox) ==
    /\ turbo_pc = "idle"
    /\ run_id < MaxRuns
    /\ CASE current_thread_id = 0 \/ local_messages = <<>> ->
              /\ ended' = Done("run_thread", "ValueError")
              /\ calls' = <<>>
              /\ UNCHANGED <<thread_messages, run_id, run_status,
                             required_action, turbo_pc, polls>>
         [] current_thread_id # 0 /\ local_messages # <<>>
               /\ ~(toolbox \subseteq map_function_tools) ->
              /\ ended' = Done("run_thread", "KeyError")
              /\ calls' = <<>>
              /\ UNCHANGED <<thread_messages, run_id, run_status,
                             required_action, turbo_pc, polls>>
         [] OTHER ->
              /\ thread_messages' = load_threads(remote_thread)
              /\ run_id' = run_id + 1
              /\ run_status' = "queued"
              /\ required_action' = <<>>
              /\ calls' = <<RemoteCall("messages.list"),
                            RemoteCall("runs.create")>>
              /\ polls' = 0
              /\ turbo_pc' = "polling"
              /\ ended' = Done("run_thread", "running")
    /\ UNCHANGED <<map_function_tools, current_thread_id, local_messages,
                   assistant_id, model, remote_assistant, remote_thread>>
    /\ UNCHANGED <<orchVars, estVars, instrVars>>

\* the tools of a requires_action poll, in order, up to the first that is
\* not equipped or that raises
tools_run(tool_ok) ==
    LET bad == {k \in 1..Len(required_action) :
                   required_action[k] \notin map_function_tools}
        stop == IF bad # {} THEN (CHOOSE k \in bad : \A j \in bad : k <= j) - 1
                ELSE IF tool_ok THEN Len(required_action) ELSE 1
    IN [k \in 1..stop |-> ToolCall(required_action[k])]

\* variant: the first poll returns whatever the status
run_thread_poll_once(retrieve_ok, tool_ok) ==
    /\ turbo_pc = "polling"
    /\ polls' = IF polls < MaxPolls THEN polls + 1 ELSE polls
    /\ thread_messages' = load_threads(remote_thread)
    /\ calls' = <<RemoteCall("runs.retrieve"), RemoteCall("messages.list")>>
    /\ ended' = Done("run_thread", "returned")
    /\ turbo_pc' = "idle"
    /\ UNCHANGED <<map_function_tools, current_thread_id, local_messages,
                   assistant_id, model, run_id, turboRemote>>
    /\ UNCHANGED <<orchVars, estVars, instrVars>>

\* one iteration of the while True loop of run_thread
run_thread_poll(retrieve_ok, tool_ok) ==
    /\ turbo_pc = "polling"
    /\ polls' = IF polls < MaxPolls THEN polls + 1 ELSE polls
    /\ CASE ~retrieve_ok ->
              /\ calls' = <<RemoteCall("runs.retrieve")>>
              /\ ended' = Done("run_thread", "external")
              /\ turbo_pc' = "idle"
              /\ UNCHANGED <<thread_messages, run_status, required_action>>
         [] retrieve_ok /\ run_status = "requires_action" ->
              IF \E k \in 1..Len(required_action) :
                    required_action[k] \notin map_function_tools
              THEN /\ calls' = <<RemoteCall("runs.retrieve")>>
                               \o tools_run(tool_ok)
                   /\ ended' = Done("run_thread", "KeyError")
                   /\ turbo_pc' = "idle"
                   /\ UNCHANGED <<thread_messages, run_status,
                                  required_action>>
              ELSE IF ~tool_ok
              THEN /\ calls' = <<RemoteCall("runs.retrieve")>>
                               \o tools_run(tool_ok)
                   /\ ended' = Done("run_thread", "tool_raises")
                   /\ turbo_pc' = "idle"
                   /\ UNCHANGED <<thread_messages, run_status,
                                  required_action>>
              ELSE /\ calls' = <<RemoteCall("runs.retrieve")>>
                               \o tools_run(tool_ok)
                               \o <<RemoteCall("runs.submit_tool_outputs")>>
                   /\ run_status' = "queued"
                   /\ required_action' = <<>>
                   /\ UNCHANGED <<thread_messages, ended, turbo_pc>>
         [] retrieve_ok /\ run_status = "completed" ->
              /\ thread_messages' = load_threads(remote_thread)
              /\ calls' = <<RemoteCall("runs.retrieve"),
                            RemoteCall("messages.list")>>
              /\ ended' = Done("run_thread", "returned")
              /\ turbo_pc' = "idle"
              /\ UNCHANGED <<run_status, required_action>>
         [] OTHER ->
              /\ calls' = <<RemoteCall("runs.retrieve")>>
              /\ UNCHANGED <<thread_messages, run_status, required_action,
                             ended, turbo_pc>>
    /\ UNCHANGED <<map_function_tools, current_thread_id, local_messages,
                   assistant_id, model, run_id, remote_assistant,
                   remote_thread>>
    /\ UNCHANGED <<orchVars, estVars, instrVars>>

\* the statuses a run of the service can take next
NextStatuses(status) ==
    CASE status = "queued" -> {"in_progress"}
      [] status = "in_progress" ->
            {"requires_action", "completed", "failed", "cancelled",
             "expired"}
      [] status = "requires_action" -> {"expired"}
      [] OTHER -> {}

\* the service works on the run while run_thread polls
RemoteProgress ==
    /\ turbo_pc = "polling"
    /\ \E status \in NextStatuses(run_status) :
          /\ run_status' = status
          /\ remote_thread' = IF status = "completed"
                              THEN Append(remote_thread, "answer")
                              ELSE remote_thread
          /\ IF status = "requires_action"
             THEN required_action' \in Requests
             ELSE required_action' = <<>>
    /\ UNCHANGED <<turboFields, remote_assistant, turbo_pc, ended, calls,
                   polls>>
    /\ UNCHANGED <<orchVars, estVars, instrVars>>

TurboNext ==
    \/ \E m \in Models : GetOrCreateAssistant(m)
    \/ SetInstructions
    \/ \E turbo_tools \in SUBSET TurboTools, equip_on_assistant \in BOOLEAN :
          EquipTools(turbo_tools, equip_on_assistant)
    \/ MakeThread
    \/ \E refresh_threads \in BOOLEAN : AddMessage(refresh_threads)
    \/ EnableRetrieval
    \/ \E toolbox \in SUBSET TurboTools : run_thread(toolbox)
    \/ \E retrieve_ok, tool_ok \in BOOLEAN :
          run_thread_poll(retrieve_ok, tool_ok)
    \/ RemoteProgress

TurboSpec == TurboInit /\ [][TurboNext]_vars

\* ------------------------------------------------------------ properties
N == total_agents

Steps == SelectSeq(log, LAMBDA e : e.ev = "step")

Memories == SelectSeq(log, LAMBDA e : e.ev = "memory")

ExternalErrors ==
    {"external:send_raises", "external:reply_raises",
     "external:resend_raises", "external:persist_raises",
     "external:validate_raises"}

\* the run executed up to its return statement
SeqDone ==
    protocol = "sequential" /\ pc = "raised"
    /\ err = "TypeError:error_message"

BcDone ==
    protocol = "broadcast" /\ pc = "raised" /\ err = "NameError:tokens"

\* the run has ended
Ended == pc \in {"raised", "returned_none"}

NoToolCapable == \A i \in 1..N : agents[i] = {}

\* C1 as stated: a sequential conversation whose external calls all return
\* has executed exactly N-1 loop steps, (p[0],p[1]) .. (p[N-2],p[N-1]) in
\* this order, when it ends.
C1_ExactlyNMinus1Steps ==
    (protocol = "sequential" /\ Ended /\ err \notin ExternalErrors)
        => Steps = [k \in 1..(N - 1) |-> Event("step", k - 1, k)]

\* C1 as amended: the loop steps of a sequential conversation are the pairs
\* (p[0],p[1]), (p[1],p[2]), ... in increasing order, each at most once and
\* at most N-1 of them; a run that ends has executed all N-1 unless an
\* external call raised or the assert of a tool resolution failed, it never
\* runs past the last pair, and every run whose calls return ends.
C1_StepsInOrder ==
    /\ [](protocol = "sequential" =>
            /\ Len(Steps) <= N - 1
            /\ \A k \in 1..Len(Steps) : Steps[k] = Event("step", k - 1, k)
            /\ err # "IndexError"
            /\ pc # "returned_none"
            /\ (Ended /\ err \notin ExternalErrors \cup {"AssertionError"})
                  => Len(Steps) = N - 1)
    /\ (protocol = "sequential") ~> Ended

\* a sequential run of three or more participants cut short by the assert
C1_Witness ==
    /\ protocol = "sequential" /\ N >= 3
    /\ pc = "raised" /\ err = "AssertionError"
    /\ Len(Steps) < N - 1

\* C2: once the seed is added the transcript is never empty, and every
\* step leaves the old transcript as a prefix of the new one, also a step
\* in which a call raises.
C2_TranscriptAppendOnly ==
    /\ [](protocol # "none" => messages # <<>>)
    /\ [][IsPrefix(messages, messages')]_vars

\* an exchange failed part-way (record appended, no reply) on a transcript
\* that had already grown
C2_Witness ==
    /\ protocol # "none" /\ pc = "raised" /\ err = "external:reply_raises"
    /\ Len(messages) >= 2 /\ Len(chats) >= Len(messages)

PastValidation ==
    \/ pc \in {"seq_spy_after", "seq_return", "bc_return"}
    \/ pc = "raised" /\ err \in {"TypeError:error_message",
                                 "NameError:tokens",
                                 "external:validate_raises"}
    \/ pc = "raised" /\ err = "external:persist_raises"
                     /\ Count("validate") > 0

\* C3: validate is called at most once, exactly once in every run that
\* got past its validation point, only after all N-1 steps of the protocol
\* and outside any exchange; after the call no reply is generated, no tool
\* runs and neither the transcript nor the chat log grows.
C3_ValidateOnceAtEnd ==
    /\ [](Count("validate") <= 1)
    /\ [](PastValidation => Count("validate") = 1)
    /\ [](Count("validate") = 1 =>
            /\ Len(Steps) = N - 1
            /\ log[Len(log)].ev \in {"validate", "persist"})
    /\ [][Count("validate") = 1 =>
            /\ messages' = messages
            /\ chats' = chats
            /\ Count("reply")' = Count("reply")
            /\ Count("tool")' = Count("tool")]_vars

\* validate was called after a run of several steps that used a tool
C3_Witness ==
    /\ Count("validate") = 1 /\ PastValidation
    /\ N >= 3 /\ Count("tool") >= 1 /\ Len(messages) >= 3

\* C4: a run in which no participant, tool, persist or validate call
\* raises (and no tool-resolution assert fails) does not end in an error.
C4_RunReturnsResult ==
    (protocol # "none" /\ pc = "raised")
        => err \in ExternalErrors \cup {"AssertionError",
                                        "TypeError:validate_absent"}

\* C5: the success / failure report of a broadcast run is "successful"
\* exactly when validate reported success, also for a (bool, message) pair.
C5_SuccessIsVerdict ==
    report # "none" => (report = "successful" <=> was_successful.ok)

\* C6: construction with 0 or 1 participants ends in the configuration
\* error and nothing ever happens on such an orchestrator (no transcript
\* entry, chat record, call, persist or validate); construction with 2 or
\* more participants does not raise it.
C6_TooFewParticipants ==
    /\ (pc # "start" /\ N < 2) =>
          /\ pc = "raised" /\ err = "Exception:config"
          /\ messages = <<>> /\ chats = <<>> /\ log = <<>>
          /\ ~sink.written /\ protocol = "none"
    /\ (pc # "start" /\ N >= 2) => err # "Exception:config"

C6_Witness ==
    pc = "raised" /\ err = "Exception:config" /\ N = 1

\* C7 as stated: without ToolCapable participants a sequential run that
\* reached its return has a transcript of exactly N entries and called
\* validate exactly once, whatever the replies.
C7_TranscriptLengthN ==
    (SeqDone /\ NoToolCapable)
        => Len(messages) = N /\ Count("validate") = 1

\* C7 as amended: such a run called validate exactly once and its
\* transcript has one entry per basic exchange performed plus the seed, at
\* most N; it has exactly N entries exactly when the seed and every reply
\* but the last are strings.
C7_TranscriptLengthByShape ==
    (SeqDone /\ NoToolCapable) =>
        /\ Count("validate") = 1
        /\ Len(messages) = 1 + Count("basic")
        /\ Len(messages) <= N
        /\ Len(messages) = N <=>
              \A k \in 1..(N - 1) :
                  k <= Len(messages) /\ messages[k].type = "str"

\* the spec's case: four participants, three string-fed basic exchanges
C7_Witness ==
    /\ SeqDone /\ NoToolCapable /\ N = 4
    /\ Len(messages) = 4 /\ Count("basic") = 3

IsSelfReply(o) == o.kind # "seed" /\ o.from = o.to

ToolsBeforeValidate ==
    \A i, j \in 1..Len(log) :
        (log[i].ev = "validate" /\ log[j].ev = "tool") => j < i

\* C8 as stated: when p[N-2] is ToolCapable and its tool has run, the last
\* entry of the final transcript of a sequential run is the reply of a
\* self-invocation.
C8_LastEntryIsSelfReply ==
    (SeqDone /\ agents[N - 1] # {}
       /\ \E k \in 1..Len(log) : log[k] = Event("tool", N - 2, N - 2))
        => IsSelfReply(Last(origin))

\* C8 as amended: the last entry of the final transcript of a sequential
\* run is the reply of a self-invocation exactly when the last participant
\* p[N-1] is ToolCapable (the terminal self-invocation); when only p[N-2]
\* is ToolCapable it is the seed or the reply to a message sent from one
\* participant to another.  Every tool invocation precedes validate.
C8_LastEntryByLastParticipant ==
    /\ SeqDone => (IsSelfReply(Last(origin)) <=> agents[N] # {})
    /\ SeqDone => (IsSelfReply(Last(origin)) =>
                      Last(origin) = Produced("self_function", N - 1, N - 1))
    /\ ToolsBeforeValidate

\* p[N-2] ran its tool and forwarded the result to a p[N-1] without tools
C8_Witness ==
    /\ SeqDone /\ N >= 3
    /\ agents[N - 1] # {} /\ agents[N] = {}
    /\ \E k \in 1..Len(log) : log[k] = Event("tool", N - 2, N - 2)
    /\ Last(origin) = Produced("function_forward", N - 2, N - 1)

LatestBefore(k) ==
    CHOOSE j \in 1..Len(origin) :
        /\ origin[j].kind = "seed" \/ origin[j].to < k
        /\ \A i \in (j + 1)..Len(origin) : origin[i].to >= k

C10_BroadcasterSendsPrompt ==
    protocol = "broadcast" =>
        \A k \in 1..Len(chats) :
            (chats[k].from_name = 0 /\ chats[k].to_name # 0)
                => chats[k].message = prompt

\* the broadcaster addressed a second participant after the transcript's
\* latest entry had become a reply
C10_Witness ==
    /\ protocol = "broadcast"
    /\ \E k \in 1..Len(chats) :
          chats[k].from_name = 0 /\ chats[k].to_name = 2
    /\ Str(latest_message) # prompt
    /\ Len(messages) >= 3

\* C11: in a broadcast run a non-broadcaster p[k] is only ever sent the
\* caller's prompt or something produced by p[k] itself, never what another
\* non-broadcaster produced, and in a run that reached its return every
\* non-broadcaster was sent the prompt.
C11_NoForwardingBetweenReceivers ==
    /\ protocol = "broadcast" =>
          \A i \in 1..Len(log) :
              (log[i].ev = "deliver" /\ log[i].a # 0)
                  => log[i].b \in {-1, log[i].a}
    /\ BcDone =>
          \A k \in 1..(N - 1) :
              \E i \in 1..Len(log) : log[i] = Event("deliver", k, -1)

\* the concatenation of the message of every chat record, in order
ChatLogText ==
    LET F[k \in 0..Len(chats)] ==
            IF k = 0 THEN <<>> ELSE F[k - 1] \o chats[k].message
    IN F[Len(chats)]

\* what one transcript entry adds to the estimator's text
Contribution(m) ==
    CASE m.type = "str" -> m.text
      [] m.type = "dict" /\ m.has_content /\ m.content # <<>> -> m.content
      [] m.type = "dict" /\ m.has_function_call -> m.function_call
      [] OTHER -> <<>>

TranscriptTokens ==
    LET F[k \in 0..Len(messages)] ==
            IF k = 0 THEN 0 ELSE F[k - 1] + Len(Contribution(messages[k]))
    IN F[Len(messages)]

IsSuffix(s, t) ==
    Len(s) <= Len(t) /\ SubSeq(t, Len(t) - Len(s) + 1, Len(t)) = s

\* C12 as stated: the text the cost of a run is computed from is the
\* concatenation of the messages of the chat log.
C12_CostOverChatLog ==
    (SeqDone \/ BcDone) => cost_text = ChatLogText

\* C12 as amended: the (cost, tokens) of a run are computed over the
\* transcript: the text starts with the prompt, ends with what the final
\* reply contributes (although that reply is sent to nobody in a
\* sequential run) and has one contribution per transcript entry, and the
\* token count is that of this text.
C12_CostOverTranscript ==
    (SeqDone \/ BcDone) =>
        /\ estimated = estimate_price_and_tokens(cost_text)
        /\ estimated.tokens = TranscriptTokens
        /\ IsPrefix(prompt, cost_text)
        /\ IsSuffix(Contribution(Last(messages)), cost_text)

\* a run whose transcript and chat log give different texts
C12_Witness ==
    /\ SeqDone /\ Len(messages) >= 3
    /\ estimated.tokens >= 3
    /\ cost_text # ChatLogText
    /\ Last(messages).type = "str"

ExchangeKinds ==
    {"basic", "memory", "function_self", "function_forward", "self_function"}

Exchanges == Cardinality({k \in 1..Len(log) : log[k].ev \in ExchangeKinds})

Persisted == sink.written /\ sink.data = chats

\* C13 as stated: whenever an exchange begins after another one has
\* completed, the sink holds exactly the chat log.
C13_PersistedAfterEveryExchange ==
    [][(Exchanges' > Exchanges /\ chats # <<>>) => Persisted]_vars

\* C13 as amended: the chat log is persisted once per loop step, after the
\* exchanges of the step, and once more after validate in the sequential
\* protocol: at every step boundary after the first step, before the
\* terminal self-invocation and at the return the sink holds exactly the
\* chat log, and there have been as many persists as steps.
C13_PersistedAfterEveryStep ==
    /\ ((pc \in {"seq_loop", "bc_loop"} /\ idx > 0)
            \/ pc \in {"seq_end", "bc_validate", "seq_return"}
            \/ SeqDone) => Persisted
    /\ pc \in {"seq_loop", "bc_loop", "seq_end", "bc_validate"}
          => Count("persist") = Len(Steps)

\* a step of two or more exchanges, persisted at its end
C13_Witness ==
    /\ pc = "seq_loop" /\ idx = 1
    /\ Len(chats) >= 2 /\ Persisted

\* C14: a persist leaves the sink holding exactly the current chat log,
\* whatever it held before; a persist that follows a persist with the chat
\* log unchanged leaves the sink as it was.
C14_PersistOverwrites ==
    /\ [][Count("persist")' > Count("persist")
            => sink' = [written |-> TRUE, data |-> chats']]_vars
    /\ [][(Count("persist")' > Count("persist") /\ Persisted
            /\ chats' = chats) => sink' = sink]_vars

\* two persists in a row (around validate) on an unchanged, non-empty log
C14_Witness ==
    /\ pc = "seq_return" /\ Len(log) >= 3
    /\ log[Len(log)].ev = "persist"
    /\ log[Len(log) - 1].ev = "validate"
    /\ log[Len(log) - 2].ev = "persist"
    /\ Len(chats) >= 2 /\ Persisted

ReplyRaised == pc = "raised" /\ err = "external:reply_raises"

\* the exchange in which the run stopped
LastExchange ==
    log[CHOOSE k \in 1..Len(log) :
            /\ log[k].ev \in ExchangeKinds
            /\ \A j \in (k + 1)..Len(log) : log[j].ev \notin ExchangeKinds]

\* the chat records of the steps before the current one
EarlierRecords ==
    IF protocol = "sequential"
    THEN SelectSeq(chats, LAMBDA c : c.from_name < idx)
    ELSE SelectSeq(chats, LAMBDA c : c.to_name <= idx)

\* C15 as stated: when a reply-generation or tool call raised during step
\* i, the run has ended without validate and the sink is as the persist of
\* step i-1 left it (not written when i is the first step).
C15_SinkAtPreviousStep ==
    ReplyRaised =>
        /\ Count("validate") = 0
        /\ Count("persist") = Len(Steps) - 1
        /\ Len(Steps) = 1 => ~sink.written

\* C15 as amended: when a reply-generation or tool call raised, the run
\* has ended for good without validate and without a result, and the sink
\* holds the chat log as last persisted: the records of the earlier steps
\* (nothing in the first step) when the call belonged to an exchange of
\* the loop step, and the whole chat log but the record of the failing
\* exchange when it was the terminal self-invocation, which runs after the
\* persist of its own step.
C15_SinkAtLastPersist ==
    /\ [](ReplyRaised =>
            /\ Count("validate") = 0
            /\ sink.written <=> Count("persist") > 0
            /\ IF LastExchange.ev = "self_function"
               THEN /\ Count("persist") = Len(Steps)
                    /\ sink.data = SubSeq(chats, 1, Len(chats) - 1)
               ELSE /\ Count("persist") = Len(Steps) - 1
                    /\ sink.data = EarlierRecords
                    /\ Len(sink.data) < Len(chats))
    /\ [][ReplyRaised => FALSE]_vars

\* the terminal self-invocation of a two-participant run raised: it is the
\* first step and the sink has been written
C15_Witness ==
    /\ ReplyRaised /\ N = 2 /\ Len(Steps) = 1
    /\ LastExchange.ev = "self_function"
    /\ sink.written /\ sink.data # <<>>

\* C16: a run whose validation predicate is absent or raises ends in an
\* error and never reaches its return; the absent predicate is found out
\* only at the validation point, after all N-1 steps, the terminal
\* self-invocation and every tool run, and nothing happens afterwards.
C16_ValidateAbsentOrRaises ==
    /\ [](err \in {"TypeError:validate_absent", "external:validate_raises"}
            => pc = "raised" /\ Len(Steps) = N - 1)
    /\ [](err = "TypeError:validate_absent" =>
            /\ validate_results_func = "absent"
            /\ Count("validate") = 0
            /\ (protocol = "sequential" /\ agents[N] # {})
                   => Count("self_function") = 1)
    /\ [](validate_results_func = "absent" =>
            /\ ~PastValidation
            /\ (Ended /\ N >= 2) =>
                   err \in ExternalErrors \cup {"AssertionError",
                                                "TypeError:validate_absent"})
    /\ [][err = "TypeError:validate_absent" => FALSE]_vars

\* a run without predicate went through three steps and a tool run before
\* it failed at the validation point
C16_Witness ==
    /\ pc = "raised" /\ err = "TypeError:validate_absent"
    /\ N = 4 /\ Count("tool") >= 1 /\ Len(messages) >= 3

\* C17: once constructed, the list of participants (its members, their
\* order and every function map) never changes.
C17_ParticipantsUnchanged ==
    [][pc # "start" => agents' = agents]_vars

\* a finished run in which a tool-capable participant was sent messages
\* and ran its tool
C17_Witness ==
    /\ SeqDone /\ Count("tool") >= 1
    /\ \E i \in 1..N : agents[i] # {}
    /\ \E i \in 1..N : agents[i] = {}

\* C18: the estimator returns the token count of its text and the cost of
\* that many tokens at 0.06 per thousand rounded to the nearest cent
\* (0 tokens: 0.00, 500: 0.03, 2000: 0.12), and changes nothing else.
C18_EstimateIsRoundedRate ==
    /\ [](estimated # NoEstimate =>
            LET t == Len(cost_text)
            IN /\ estimated.tokens = t
               /\ 1000 * estimated.cost - COST_PER_1K_TOKENS * t
                     \in -500..500
               /\ t = 0 => estimated.cost = 0
               /\ t = 500 => estimated.cost = 3
               /\ t = 2000 => estimated.cost = 12)
    /\ [][UNCHANGED <<orchVars, cost_text, instrVars>>]_vars

C18_Witness ==
    /\ estimated # NoEstimate
    /\ Len(cost_text) = 2000 /\ estimated.cost = 12

\* C19: no text costs less than a text of fewer tokens.
C19_CostMonotonic ==
    estimated # NoEstimate =>
        \A t1 \in 0..Len(cost_text) :
            /\ CostCents(t1) <= estimated.cost
            /\ CostCents(t1) >= 0

\* a text past the first thousand tokens that costs the same as a shorter
\* one and more than another
C19_Witness ==
    /\ estimated # NoEstimate /\ Len(cost_text) > 1000
    /\ CostCents(Len(cost_text) - 1) = estimated.cost
    /\ CostCents(Len(cost_text) - 100) < estimated.cost

\* C20: validate_run_sql never raises: it returns success when the
\* results file has content and failure otherwise, also when the file does
\* not exist.
C20_ValidateRunSqlReturns ==
    [][(validation' # validation /\ validation'.by = "validate_run_sql")
        => /\ ~validation'.raised
           /\ validation'.ok <=> results_file = "content"]_vars

\* no loop step begins between the log entries i and j
SameStep(i, j) == \A m \in (i + 1)..j : log[m].ev # "step"

\* the participant whose tools a loop step consults: agent_a of the pair,
\* or agent_iterate of the broadcast
Sender == IF protocol = "sequential" THEN idx ELSE idx + 1

LatestIsString == Last(messages).type = "str"

LatestIsRequest ==
    Last(messages).type = "dict" /\ Last(messages).has_function_call

BasicOrMemory == Count("basic") + Count("memory")

\* C21 as stated: no loop step performs a basic or memory exchange and
\* also a tool resolution.
C21_OneOutcomePerStep ==
    \A i, j \in 1..Len(log) :
        (i < j /\ log[i].ev \in {"basic", "memory"}
           /\ log[j].ev = "function_self") => ~SameStep(i, j)

\* C21 as amended: a loop step makes two tests one after the other: it
\* performs a basic (memory) exchange exactly when the latest entry is a
\* string, and then a tool resolution exactly when the latest entry, as it
\* stands after that exchange, is a function call and the sender has
\* functions.  A step performs at most one of each, never the tool
\* resolution first, and can perform both.
C21_TwoTestsPerStep ==
    /\ [][(pc \in {"seq_basic", "bc_memory"}) =>
            ((BasicOrMemory' > BasicOrMemory) <=> LatestIsString)]_vars
    /\ [][(pc \in {"seq_func", "bc_func"}) =>
            ((Count("function_self")' > Count("function_self"))
             <=> (LatestIsRequest /\ agents[Sender + 1] # {}))]_vars
    /\ [](\A i, j \in 1..Len(log) :
             (i < j /\ SameStep(i, j)) =>
                 /\ ~(log[i].ev = "function_self"
                        /\ log[j].ev \in {"basic", "memory"})
                 /\ ~(log[i].ev \in {"basic", "memory"}
                        /\ log[j].ev \in {"basic", "memory"})
                 /\ ~(log[i].ev = "function_self"
                        /\ log[j].ev = "function_self"))

\* a broadcast step in which the receiver answered the prompt with a
\* function call and resolved it in the same step
C21_Witness ==
    /\ protocol = "broadcast" /\ N >= 3 /\ pc = "bc_spy"
    /\ \E i, j \in 1..Len(log) :
          /\ i < j /\ SameStep(i, j)
          /\ log[i].ev = "memory" /\ log[j].ev = "function_forward"

\* C22 as stated: a tool resolution starts only when the sender's map
\* holds the function the latest message asks for.
C22_ResolutionNeedsMatchingTool ==
    [][Count("function_self")' > Count("function_self")
        => /\ LatestIsRequest
           /\ Last(messages).function_call[1] \in agents[Sender + 1]]_vars

\* C22 as amended: a tool resolution starts only when the latest message
\* is a function call and the sender's map is not empty, and it does start
\* when the map holds functions but not the one asked for: the name is not
\* looked up.
C22_ResolutionNeedsAnyTool ==
    /\ [][Count("function_self")' > Count("function_self")
            => LatestIsRequest /\ agents[Sender + 1] # {}]_vars
    /\ [][(pc \in {"seq_func", "bc_func"} /\ LatestIsRequest
             /\ agents[Sender + 1] # {}
             /\ Last(messages).function_call[1] \notin agents[Sender + 1])
            => Count("function_self")' > Count("function_self")]_vars

\* a sender holding run_sql was addressed with a request for write_file
C22_Witness ==
    /\ protocol = "sequential" /\ idx = 0 /\ agents[1] = {"run_sql"}
    /\ Len(chats) >= 2
    /\ Last(chats) = Chat(0, 0, FunctionCallDict("write_file"))
    /\ Count("function_self") = 1

IndexOf(e) == CHOOSE k \in 1..Len(log) : log[k].ev = e

\* C23: in a sequential run that got to its validation point the terminal
\* self-invocation happened exactly when p[N-1] has functions, whatever
\* the latest message, and never more than once; it comes after all N-1
\* steps and their persists and before validate, and it is the last
\* exchange of the run.  When its calls return it adds the chat record
\* p[N-1] -> p[N-1] carrying the latest message and one transcript entry.
C23_TerminalSelfInvocation ==
    /\ [](Count("self_function") <= 1)
    /\ []((protocol = "sequential"
            /\ (pc \in {"seq_validate", "seq_spy_after", "seq_return"}
                   \/ PastValidation))
            => (Count("self_function") = 1 <=> agents[N] # {}))
    /\ [](Count("self_function") = 1 =>
            /\ protocol = "sequential"
            /\ Len(Steps) = N - 1 /\ Count("persist") >= N - 1
            /\ log[IndexOf("self_function")] =
                   Event("self_function", N - 1, N - 1)
            /\ \A k \in 1..Len(log) :
                  /\ log[k].ev \in ExchangeKinds
                         => k <= IndexOf("self_function")
                  /\ log[k].ev = "validate"
                         => k > IndexOf("self_function"))
    /\ [][pc = "seq_end" =>
            ((Count("self_function")' = Count("self_function") + 1)
             <=> agents[N] # {})]_vars
    /\ [][(Count("self_function")' > Count("self_function")
             /\ pc' # "raised") =>
            /\ chats' = Append(chats, Chat(N - 1, N - 1, Last(messages)))
            /\ Len(messages') = Len(messages) + 1
            /\ SubSeq(messages', 1, Len(messages)) = messages
            /\ pc' = "seq_validate"]_vars

\* the last participant was sent a None that had gone stale two steps
\* earlier, and validate was reached
C23_Witness ==
    /\ protocol = "sequential" /\ N >= 3 /\ PastValidation
    /\ Count("self_function") = 1
    /\ Last(chats) = Chat(N - 1, N - 1, PyNone)
    /\ Len(messages) = 3

LatestHasContent ==
    /\ Last(messages).type = "dict" /\ Last(messages).has_content
    /\ Last(messages).content # <<>>

\* C24: a tool resolution first sends the pending request from the sender
\* to itself; the forward to the receiver begins only from a self-addressed
\* reply that carries non-empty content; otherwise the run ends in an
\* assertion error with the reply as the latest transcript entry, nothing
\* forwarded and the record of the self-addressed exchange not persisted.
C24_ForwardAfterContent ==
    /\ [][(Count("function_self")' > Count("function_self")
             /\ err' # "external:send_raises") =>
            chats' = Append(chats, Chat(Sender, Sender, Last(messages)))]_vars
    /\ [](pc = "function_forward" =>
            /\ Last(origin) = Produced("function_self", Sender, Sender)
            /\ LatestHasContent)
    /\ [][Count("function_forward")' > Count("function_forward")
            => pc = "function_forward"]_vars
    /\ [](err = "AssertionError" =>
            /\ pc = "raised"
            /\ Last(origin) = Produced("function_self", Sender, Sender)
            /\ ~LatestHasContent
            /\ LastExchange.ev = "function_self"
            /\ Last(chats).from_name = Sender
            /\ Last(chats).to_name = Sender
            /\ IsPrefix(sink.data, chats)
            /\ Len(sink.data) < Len(chats))
    /\ [][err = "AssertionError" => FALSE]_vars

\* the self-addressed reply of the second step was an empty content
C24_Witness ==
    /\ pc = "raised" /\ err = "AssertionError"
    /\ Last(messages) = ContentDict(<<>>)
    /\ sink.written /\ Len(Steps) >= 2

\* C25: a loop step whose latest message is neither a string nor a
\* function call with a sender that has functions addresses nobody, leaves
\* transcript and chat log as they are and raises nothing of its own; the
\* loop goes on to its persist and from there to the next step or to the
\* end of the loop.
C25_SkippedStep ==
    /\ [][(pc \in {"seq_basic", "bc_memory"} /\ ~LatestIsString) =>
            /\ messages' = messages /\ chats' = chats /\ log' = log
            /\ err' = err /\ pc' \in {"seq_func", "bc_func"}]_vars
    /\ [][(pc \in {"seq_func", "bc_func"}
             /\ ~(LatestIsRequest /\ agents[Sender + 1] # {})) =>
            /\ messages' = messages /\ chats' = chats /\ log' = log
            /\ err' = err /\ pc' \in {"seq_spy", "bc_spy"}]_vars
    /\ [][(pc \in {"seq_spy", "bc_spy"} /\ pc' # "raised") =>
            /\ messages' = messages /\ chats' = chats
            /\ pc' \in {"seq_loop", "seq_end", "bc_loop"}]_vars

\* the second step found a None, did nothing, and the loop went on
C25_Witness ==
    /\ pc \in {"seq_loop", "bc_loop"} /\ idx = 2 /\ err = "none"
    /\ Last(messages) = PyNone
    /\ Len(log) >= 2
    /\ log[Len(log)].ev = "persist" /\ log[Len(log) - 1].ev = "step"

\* the latest entry is neither a string nor a function call
Stale ==
    /\ protocol # "none"
    /\ \/ Last(messages).type = "NoneType"
       \/ Last(messages).type = "dict" /\ ~Last(messages).has_function_call

\* C26: while the latest transcript entry is None or a dict without a
\* function call, no step taken outside the forward of the tool resolution
\* that produced it and outside the terminal self-invocation addresses a
\* participant or lets the transcript or the chat log grow; a run that ends
\* in this condition without an external or assertion error has called
\* validate all the same.
C26_StaleLatestMessage ==
    /\ [][(Stale /\ pc \notin {"function_forward", "seq_end"}) =>
            /\ messages' = messages /\ chats' = chats
            /\ Exchanges' = Exchanges]_vars
    /\ []((Stale /\ Ended
             /\ err \notin ExternalErrors \cup {"AssertionError",
                                                "TypeError:validate_absent"})
            => Count("validate") = 1 /\ Len(Steps) = N - 1)

\* the first reply of a broadcast over four participants was None: two
\* steps did nothing and validate reported success
C26_Witness ==
    /\ BcDone /\ N = 4
    /\ messages = <<PyStr(prompt), PyNone>>
    /\ Len(Steps) = 3 /\ Exchanges = 1
    /\ report = "successful"

\* C27: a memory exchange with p[k] whose calls return adds the records
\* p[0] -> p[k] with the prompt and p[k] -> p[k] with the reply, in this
\* order, adds the reply to the transcript and asks p[k] for one reply.
C27_MemoryExchange ==
    [][(Count("memory")' > Count("memory") /\ pc' # "raised") =>
        LET k == idx + 1
            reply == Last(messages')
        IN /\ chats' = chats \o <<Chat(0, k, PyStr(prompt)),
                                   Chat(k, k, reply)>>
           /\ messages' = Append(messages, reply)
           /\ Count("reply")' = Count("reply") + 1
           /\ Count("memory")' = Count("memory") + 1]_vars

\* the second memory exchange of a broadcast returned
C27_Witness ==
    /\ protocol = "broadcast" /\ pc = "bc_func" /\ idx = 1
    /\ Count("memory") = 2 /\ Len(chats) = 4
    /\ chats[3] = Chat(0, 2, PyStr(prompt))
    /\ chats[4].from_name = 2 /\ chats[4].to_name = 2

\* C28 as stated: at most one of the three classifications holds for the
\* latest transcript entry.
C28_ExclusiveClassification ==
    protocol # "none" =>
        /\ ~(last_message_is_func_call /\ last_message_is_content)
        /\ ~(last_message_is_string /\ last_message_is_func_call)
        /\ ~(last_message_is_string /\ last_message_is_content)

\* C28 as amended: a string is neither a function call nor content, and
\* None is none of the three; a dict is classified as a function call and
\* as content at once exactly when it carries a function call and
\* non-empty content.
C28_OverlappingClassification ==
    protocol # "none" =>
        /\ last_message_is_string =>
              ~last_message_is_func_call /\ ~last_message_is_content
        /\ Last(messages).type = "NoneType" =>
              /\ ~last_message_is_string /\ ~last_message_is_func_call
              /\ ~last_message_is_content
        /\ (last_message_is_func_call /\ last_message_is_content)
              <=> (LatestIsRequest /\ LatestHasContent)

\* the latest entry is a request that also carries text
C28_Witness ==
    /\ protocol # "none"
    /\ last_message_is_func_call /\ last_message_is_content
    /\ Len(messages) >= 2

\* the fields a message has
Shape(m) == <<m.type, m.has_content, m.has_function_call>>

\* the transcript entries that are self-addressed replies of a tool
\* resolution
SelfReplies == {k \in 1..Len(origin) : origin[k].kind = "function_self"}

\* the run was ended by the assert on entry k
Aborted(k) == k = Len(messages) /\ err = "AssertionError"

HasContent(m) == m.type = "dict" /\ m.has_content /\ m.content # <<>>

\* C29 as stated: what follows a self-addressed reply of a tool
\* resolution (forward or abort) is the same for replies of the same
\* shape.
C29_RoutingByShape ==
    \A i, j \in SelfReplies :
        Shape(messages[i]) = Shape(messages[j])
            => (Aborted(i) <=> Aborted(j))

\* C29 as amended: what follows a self-addressed reply of a tool
\* resolution depends on its shape and on whether its content is empty:
\* the run is aborted exactly when the reply has no content or an empty
\* one, so replies of the same shape and the same emptiness are treated
\* alike.
C29_RoutingByShapeAndEmptiness ==
    /\ \A i \in SelfReplies : Aborted(i) <=> ~HasContent(messages[i])
    /\ \A i, j \in SelfReplies :
          (Shape(messages[i]) = Shape(messages[j])
             /\ (messages[i].content = <<>>) = (messages[j].content = <<>>))
              => (Aborted(i) <=> Aborted(j))

\* two self-addressed replies {"content": ...} in one run, the first
\* forwarded, the second, empty, aborting the run
C29_Witness ==
    /\ err = "AssertionError"
    /\ \E i, j \in SelfReplies :
          /\ i < j /\ Shape(messages[i]) = Shape(messages[j])
          /\ messages[i] = ContentDict(<<"ok">>)
          /\ messages[j] = ContentDict(<<>>)

TranscriptText ==
    LET F[k \in 0..Len(messages)] ==
            IF k = 0 THEN <<>> ELSE F[k - 1] \o Contribution(messages[k])
    IN F[Len(messages)]

\* C31: the text handed to the cost estimator is the in-order
\* concatenation of one contribution per transcript entry: a string gives
\* itself, a dict its content when non-empty and otherwise its function
\* call, a None entry or a dict with neither gives nothing.
C31_CostTextByContribution ==
    (SeqDone \/ BcDone) => cost_text = TranscriptText

\* a finished run whose transcript holds a string, a dict with content, a
\* dict with a function call only and a None entry
C31_Witness ==
    /\ SeqDone /\ estimated # NoEstimate
    /\ \E i, j, k \in 1..Len(messages) :
          /\ messages[i] = FunctionCallDict("run_sql")
          /\ messages[j] = ContentDict(<<"ok">>)
          /\ messages[k] = PyNone
    /\ cost_text = <<"hello", "run_sql", "ok">>

\* C32: in a sequential run, whenever no exchange is cut short by a
\* raising reply call (at every step boundary, when validate is called, at
\* the end), the transcript is one entry longer than the chat log.
C32_TranscriptOneLonger ==
    (protocol = "sequential" /\ err # "external:reply_raises")
        => Len(messages) = Len(chats) + 1

\* validate is about to be called after three or more exchanges
C32_Witness ==
    /\ pc = "seq_validate" /\ Len(chats) >= 3
    /\ Len(messages) = Len(chats) + 1

\* C33: in a sequential run every chat record goes from p[i] to p[i+1] or
\* from p[i] to p[i], and the sender index never decreases along the chat
\* log.
C33_RecordsFollowThePipeline ==
    protocol = "sequential" =>
        /\ \A k \in 1..Len(chats) :
              /\ chats[k].from_name \in 0..(N - 1)
              /\ chats[k].to_name \in 0..(N - 1)
              /\ chats[k].to_name \in
                    {chats[k].from_name, chats[k].from_name + 1}
        /\ \A j, k \in 1..Len(chats) :
              j < k => chats[j].from_name <= chats[k].from_name

\* a finished run of three participants with a record to the next
\* participant, a self-addressed record of a tool resolution and the
\* record of the terminal self-invocation
C33_Witness ==
    /\ SeqDone /\ N = 3
    /\ \E i, j, k \in 1..Len(chats) :
          /\ i < j /\ j < k
          /\ chats[i].from_name = 0 /\ chats[i].to_name = 0
          /\ chats[j].from_name = 0 /\ chats[j].to_name = 1
          /\ chats[k].from_name = 2 /\ chats[k].to_name = 2

\* validate is being called, or has raised
AtValidate ==
    \/ pc \in {"seq_validate", "bc_validate"}
    \/ (pc = "raised"
          /\ err \in {"external:validate_raises",
                      "TypeError:validate_absent"})

\* the records of the terminal self-invocation of a sequential run
TerminalRecords ==
    SelectSeq(chats, LAMBDA c : c.from_name = N - 1)

\* C34 as stated: when validate is called, and when it has raised, the
\* sink holds the complete chat log, in both protocols.
C34_SinkCompleteAtValidate == AtValidate => Persisted

\* C34 as amended: when validate is called, and when it has raised, the
\* sink of a broadcast run holds the complete chat log, and the sink of a
\* sequential run holds the chat log up to the last loop step: the record
\* of the terminal self-invocation, which runs after the persist of the
\* last step, is not in the sink, and a validate that raises leaves it
\* out for good.
C34_SinkAtValidate ==
    AtValidate =>
        /\ sink.written
        /\ protocol = "broadcast" => Persisted
        /\ protocol = "sequential" =>
              /\ sink.data = SelectSeq(chats, LAMBDA c : c.from_name < N - 1)
              /\ sink.data \o TerminalRecords = chats
              /\ Len(TerminalRecords) <= 1

\* validate raised after the terminal self-invocation of a run of three
\* participants: the sink lacks the last chat record
C34_Witness ==
    /\ protocol = "sequential" /\ N = 3
    /\ pc = "raised" /\ err = "external:validate_raises"
    /\ Len(TerminalRecords) = 1
    /\ Len(sink.data) >= 2
    /\ sink.data = SubSeq(chats, 1, Len(chats) - 1)

\* the files numbered below innovation_index are all there: none was
\* removed after it was written
WrittenFilesKept ==
    \A i \in 1..innovation_index : innovation_files[i] # "absent"

AllWrittenHaveContent ==
    \A i \in 1..innovation_index : innovation_files[i] = "content"

\* C35: innovation_index counts the writes that completed, each of which
\* leaves its file in place, and after writes only (no written file
\* removed) validate_innovation_files returns, with success exactly when
\* every file numbered below innovation_index has content: in particular
\* it succeeds when nothing was written.
C35_InnovationFilesValidated ==
    /\ [][innovation_index' # innovation_index
            => /\ innovation_index' = innovation_index + 1
               /\ innovation_files'[innovation_index'] # "absent"
               /\ \A i \in 1..innovation_index :
                     innovation_files'[i] = innovation_files[i]]_vars
    /\ [][(validation' # validation
             /\ validation'.by = "validate_innovation_files"
             /\ WrittenFilesKept)
            => /\ ~validation'.raised
               /\ validation'.ok <=> AllWrittenHaveContent]_vars
    /\ [][(validation' # validation
             /\ validation'.by = "validate_innovation_files"
             /\ innovation_index = 0)
            => validation' = Returned("validate_innovation_files", TRUE)]_vars

\* two writes completed, the second of an empty string, and the files
\* were found invalid
C35_Witness ==
    /\ innovation_index = 2
    /\ innovation_files[1] = "content" /\ innovation_files[2] = "empty"
    /\ validation = Returned("validate_innovation_files", FALSE)

\* the methods that ask for an assistant
NeedAssistant ==
    {"set_instructions", "equip_tools", "make_thread", "enable_retrieval"}

\* the call raised ValueError before it did anything
RefusedUntouched ==
    /\ ended'.result = "ValueError"
    /\ turbo_pc' = "idle"
    /\ calls' = <<>>
    /\ turboFields' = turboFields
    /\ turboRemote' = turboRemote

\* C36: set_instructions, equip_tools, make_thread and enable_retrieval
\* raise ValueError whenever there is no assistant, and run_thread raises
\* ValueError whenever there is no thread; in each of these cases no
\* remote call is made and no field of the instance changes.
C36_CallOrderEnforced ==
    /\ [][(turbo_pc = "idle" /\ assistant_id = 0
             /\ ended'.method \in NeedAssistant) => RefusedUntouched]_vars
    /\ [][(turbo_pc = "idle" /\ current_thread_id = 0
             /\ ended'.method = "run_thread") => RefusedUntouched]_vars

\* make_thread was refused on an instance without assistant that already
\* holds a local message
C36_Witness ==
    /\ assistant_id = 0 /\ current_thread_id = 0
    /\ local_messages # <<>>
    /\ ended = Done("make_thread", "ValueError")
    /\ calls = <<>>

\* the messages add_message has put on the current thread
UserMessages == SelectSeq(remote_thread, LAMBDA m : m = "question")

\* C37 as stated: run_thread raises ValueError whenever no message has
\* been added to the current thread.
C37_RunNeedsMessageOnThread ==
    [][(turbo_pc = "idle" /\ ended'.method = "run_thread"
          /\ UserMessages = <<>>)
         => (ended'.result = "ValueError" /\ turbo_pc' = "idle")]_vars

RunFailures == {"failed", "cancelled", "expired"}

\* what a poll does under requires_action when every tool returns
ToolsThenSubmit ==
    <<RemoteCall("runs.retrieve")>>
        \o [k \in 1..Len(required_action) |-> ToolCall(required_action[k])]
        \o <<RemoteCall("runs.submit_tool_outputs")>>

\* C38: run_thread returns exactly when a poll observes the status
\* completed; a poll under requires_action executes every requested tool
\* in order and submits the outputs (unless a tool is not equipped or
\* raises); under any other status, a terminal failed, cancelled or
\* expired included, the loop goes on polling and neither returns nor
\* raises, unless the status retrieval itself raises.
C38_ReturnsOnlyOnCompleted ==
    /\ [][(turbo_pc = "polling" /\ ended'.result = "returned")
            => (run_status = "completed" /\ turbo_pc' = "idle")]_vars
    /\ [][(turbo_pc = "polling" /\ run_status = "completed")
            => (turbo_pc' = "idle"
                  /\ ended'.result \in {"returned", "external"})]_vars
    /\ [][(turbo_pc = "polling" /\ run_status = "requires_action"
             /\ run_status' # "expired")
            => IF turbo_pc' = "polling"
               THEN run_status' = "queued" /\ calls' = ToolsThenSubmit
               ELSE ended'.result \in
                        {"KeyError", "tool_raises", "external"}]_vars
    /\ [][(turbo_pc = "polling"
             /\ run_status \notin {"completed", "requires_action"})
            => (turbo_pc' = "polling" \/ ended'.result = "external")]_vars
    /\ [][(turbo_pc = "polling" /\ run_status \in RunFailures)
            => run_status' = run_status]_vars

\* the run has failed and run_thread has polled it again and again
C38_Witness ==
    /\ turbo_pc = "polling" /\ run_status = "failed"
    /\ polls >= 2
    /\ calls = <<RemoteCall("runs.retrieve")>>
    /\ ended = Done("run_thread", "running")

====
